---- MODULE Spec2Model ----
(***************************************************************************)
(* Model of vigil: the poll loop (processor.Processor.Start / poll), the   *)
(* issue lifecycle engine (processEntry / createNewIssue /                 *)
(* updateExistingIssue), the fingerprint generator (GenerateBugID /        *)
(* normalizeEndpoint) and the Gitea client's EnsureLabel, together with    *)
(* the tracker (Gitea), the log source (Loki) and the notifiers as the     *)
(* environment.                                                            *)
(*                                                                         *)
(* Strings the code inspects character by character (endpoint, level,      *)
(* message) are sequences of one-character strings; every other text is a  *)
(* sequence of string tokens, so that any two texts can be compared.       *)
(* Time is an integer number of clock units.                               *)
(***************************************************************************)
EXTENDS Integers, Sequences, FiniteSets, TLC

VARIABLES
    clock,       \* the wall clock read by time.Now()
    lastPoll,    \* Processor.lastPoll, the poll watermark
    pc,          \* where Start is: "start", "poll", "querying", "processing", "idle", "stopped"
    tick,        \* a tick is pending on ticker.C
    cancelled,   \* ctx.Done() is closed
    query,       \* the QueryRange request in flight: <<>> or <<[start, end]>>
    qRes,        \* how the latest query ended: "none", "fail", "empty", "found"
    failedStart, \* history: <<the start time of the latest query>> if it failed, else <<>>
    remaining,   \* how many entries of the batch the range loop has not reached yet
    issues,      \* the tracker's issues, issue number = index
    last,        \* history: what the processEntry of the latest loop iteration did
    batch,       \* the entries QueryRange returned to the cycle in flight, else <<>>
    handed,      \* history: the positions of batch handed to processEntry in this cycle
    arg,         \* the input of the function under test: <<>> or <<input>>
    ret,         \* the result of the function under test: <<>> or <<result>>
    engines,     \* the processEntry invocations of the processors that share the tracker
    labels,      \* the names of the labels that exist in the shared tracker
    failed       \* history: the log lines whose processEntry returned an error

\* the state of one Processor and of its poll cycle
pollVars == <<clock, lastPoll, pc, tick, cancelled, query, qRes, failedStart, remaining,
              last, batch, handed>>

\* the state of a function under test
pureVars == <<arg, ret>>

\* the state of the processors that share the tracker
raceVars == <<engines, labels>>

vars == <<pollVars, issues, pureVars, raceVars, failed>>

----------------------------------------------------------------------------
(* Bounds of the model *)

MaxTime == 1

MaxBatch == 2

MaxComments == 1

NumNotifiers == 2

MaxSightings == 4

(* Program constants *)

Lookback == 5

TitleMessageLimit == 80

CriticalStatus == 500

----------------------------------------------------------------------------
(* Characters *)

Digits == {"0", "1", "2", "3", "4", "5", "6", "7", "8", "9"}

HexDigits == Digits \cup {"a", "b", "c", "d", "e", "f"}

LowerCase == <<"a", "b", "c", "d", "e", "f", "g", "h", "i", "j", "k", "l", "m",
               "n", "o", "p", "q", "r", "s", "t", "u", "v", "w", "x", "y", "z">>

UpperCase == <<"A", "B", "C", "D", "E", "F", "G", "H", "I", "J", "K", "L", "M",
               "N", "O", "P", "Q", "R", "S", "T", "U", "V", "W", "X", "Y", "Z">>

ToUpperChar(c) ==
    IF \E i \in 1..26 : LowerCase[i] = c
    THEN UpperCase[CHOOSE i \in 1..26 : LowerCase[i] = c]
    ELSE c

ToUpper(s) == [i \in 1..Len(s) |-> ToUpperChar(s[i])]

----------------------------------------------------------------------------
(* normalizeEndpoint: two regular-expression replacements, leftmost match   *)
(* first, each match as long as possible, matches not overlapping.          *)

\* length of the run of characters of set cs that starts at position i of s
RECURSIVE RunLen(_, _, _)
RunLen(s, i, cs) ==
    IF i <= Len(s) /\ s[i] \in cs THEN 1 + RunLen(s, i + 1, cs) ELSE 0

replaceNoNumeric(s, i) == s

\* ReplaceAllString of /\d+ by /:id, from position i on
RECURSIVE ReplaceNumeric(_, _)
ReplaceNumeric(s, i) ==
    IF i > Len(s) THEN <<>>
    ELSE IF s[i] = "/" /\ RunLen(s, i + 1, Digits) > 0
         THEN <<"/", ":", "i", "d">> \o ReplaceNumeric(s, i + 1 + RunLen(s, i + 1, Digits))
         ELSE <<s[i]>> \o ReplaceNumeric(s, i + 1)

\* the groups of the UUID expression: 8-4-4-4-12 characters of [0-9a-f]
UUIDGroups == <<8, 4, 4, 4, 12>>

\* whether groups g.. of the UUID expression match s from position i on
RECURSIVE MatchUUIDFrom(_, _, _)
MatchUUIDFrom(s, i, g) ==
    /\ i + UUIDGroups[g] - 1 <= Len(s)
    /\ \A k \in i..(i + UUIDGroups[g] - 1) : s[k] \in HexDigits
    /\ IF g = Len(UUIDGroups) THEN TRUE
       ELSE /\ i + UUIDGroups[g] <= Len(s)
            /\ s[i + UUIDGroups[g]] = "-"
            /\ MatchUUIDFrom(s, i + UUIDGroups[g] + 1, g + 1)

UUIDMatchLen == 37

\* ReplaceAllString of /[0-9a-f]{8}-[0-9a-f]{4}-[0-9a-f]{4}-[0-9a-f]{4}-[0-9a-f]{12} by /:uuid
RECURSIVE ReplaceUUID(_, _)
ReplaceUUID(s, i) ==
    IF i > Len(s) THEN <<>>
    ELSE IF s[i] = "/" /\ MatchUUIDFrom(s, i + 1, 1)
         THEN <<"/", ":", "u", "u", "i", "d">> \o ReplaceUUID(s, i + UUIDMatchLen)
         ELSE <<s[i]>> \o ReplaceUUID(s, i + 1)

normalizeEndpoint(endpoint) == ReplaceUUID(ReplaceNumeric(endpoint, 1), 1)

----------------------------------------------------------------------------
(* GenerateBugID.  The 8-byte prefix of the SHA-256 digest is modelled as   *)
(* an ideal digest: the tagged input, so that two inputs have the same      *)
(* digest exactly when they are the same text.                              *)

Sha256Prefix(data) == <<"sha256:">> \o data

generateBugIDHashed(entry) ==
    Sha256Prefix(entry.BugID \o <<"|">> \o entry.Method \o <<"|">> \o entry.Action
                 \o <<"|", ToString(entry.Status), "|">> \o entry.Function)

GenerateBugID(entry) ==
    IF entry.BugID # <<>>
    THEN entry.BugID
    ELSE Sha256Prefix(entry.Method \o <<"|">> \o normalizeEndpoint(entry.Action)
                      \o <<"|", ToString(entry.Status), "|">> \o entry.Function)

BugIDLabel(bugID) == <<"bugid:">> \o bugID

----------------------------------------------------------------------------
(* LogEntry.IsError *)

LevelERROR == <<"E", "R", "R", "O", "R">>

Levelerror == <<"e", "r", "r", "o", "r">>

IsError(e) ==
    IF e.Level = LevelERROR \/ e.Level = Levelerror THEN TRUE
    ELSE IF e.Status >= CriticalStatus THEN TRUE
    ELSE FALSE

----------------------------------------------------------------------------
(* generateTitle, generateComment *)

\* the character e with acute accent, which UTF-8 encodes in two bytes
EAcute == "U+00E9"

TwoByteChars == {EAcute}

\* len(s) of a Go string: the number of bytes of its UTF-8 encoding
RECURSIVE ByteLen(_)
ByteLen(s) ==
    IF s = <<>> THEN 0
    ELSE (IF s[1] \in TwoByteChars THEN 2 ELSE 1) + ByteLen(Tail(s))

UnknownError == <<"U", "n", "k", "n", "o", "w", "n", " ", "e", "r", "r", "o", "r">>

joinPartsReversed(parts) ==
    IF Len(parts) = 0 THEN <<>>
    ELSE IF Len(parts) = 1 THEN parts[1]
    ELSE IF Len(parts) = 2 THEN parts[2] \o <<" - ">> \o parts[1]
    ELSE parts[3] \o <<" - ">> \o parts[2] \o <<" - ">> \o parts[1]

JoinParts(parts) ==
    IF Len(parts) = 0 THEN <<>>
    ELSE IF Len(parts) = 1 THEN parts[1]
    ELSE IF Len(parts) = 2 THEN parts[1] \o <<" - ">> \o parts[2]
    ELSE parts[1] \o <<" - ">> \o parts[2] \o <<" - ">> \o parts[3]

generateTitle(entry) ==
    LET p1 == IF entry.Status >= CriticalStatus
              THEN << <<"[", ToString(entry.Status), "]">> >>
              ELSE IF entry.Level # <<>>
                   THEN << <<"[">> \o ToUpper(entry.Level) \o <<"]">> >>
                   ELSE <<>>
        p2 == IF entry.Method # <<>> /\ entry.Action # <<>>
              THEN << entry.Method \o <<" ">> \o normalizeEndpoint(entry.Action) >>
              ELSE <<>>
        p3 == IF entry.Message # <<>> /\ ByteLen(entry.Message) < TitleMessageLimit
              THEN << entry.Message >>
              ELSE <<>>
        parts == p1 \o p2 \o p3
    IN  IF Len(parts) = 0 THEN UnknownError ELSE JoinParts(parts)

\* the comment text: the entry's timestamp and the occurrence count it is stamped with
generateComment(entry, occurrences) ==
    [timestamp |-> entry.Timestamp, occurrences |-> occurrences]

----------------------------------------------------------------------------
(* The log entries the log source may return *)

EntryPut123 ==
    [Level |-> <<>>, Message |-> <<"t", "i", "m", "e", "o", "u", "t">>,
     Method |-> <<"PUT">>, Action |-> <<"/", "c", "/", "1", "2", "3">>,
     Status |-> 500, BugID |-> <<>>, Function |-> <<"f">>, Timestamp |-> 1]

EntryPut456 ==
    [Level |-> <<>>, Message |-> <<"t", "i", "m", "e", "o", "u", "t">>,
     Method |-> <<"PUT">>, Action |-> <<"/", "c", "/", "4", "5", "6">>,
     Status |-> 500, BugID |-> <<>>, Function |-> <<"f">>, Timestamp |-> 2]

EntryExplicit ==
    [Level |-> Levelerror, Message |-> <<>>,
     Method |-> <<>>, Action |-> <<>>,
     Status |-> 0, BugID |-> <<"db-timeout-coffee">>, Function |-> <<>>, Timestamp |-> 1]

EntryInfo ==
    [Level |-> <<"i", "n", "f", "o">>, Message |-> <<"o", "k">>,
     Method |-> <<"GET">>, Action |-> <<"/", "c">>,
     Status |-> 200, BugID |-> <<>>, Function |-> <<"g">>, Timestamp |-> 2]

\* the entries the log source returns to the poll loop
Entries == {EntryPut123, EntryExplicit, EntryInfo}

\* the times of the lines the log source holds
LineTimes == (0 - 1)..(MaxTime - 1)

\* the lines the log source holds: a line is an entry at a time
LogLines ==
    {[entry EXCEPT !.Timestamp = t] : entry \in {EntryPut123, EntryInfo}, t \in LineTimes}

\* GenerateBugID and generateTitle are pure functions of the entry, so the
\* fingerprint and the title of each entry of the model are computed once
\* and looked up by the processing steps.
bugIDOf == [entry \in Entries \cup {EntryPut456} \cup LogLines |-> GenerateBugID(entry)]

titleOf == [entry \in Entries \cup {EntryPut456} \cup LogLines |-> generateTitle(entry)]

\* QueryRange returns up to MaxBatch entries, each any of Entries
BatchSizes == 0..MaxBatch

Batches == UNION {[1..n -> Entries] : n \in BatchSizes}

----------------------------------------------------------------------------
(* The Gitea client.  A call record says what was sent and whether the      *)
(* client reported success.                                                 *)

Call(op, number, lbls, occ, dest, ok) ==
    [op |-> op, number |-> number, labels |-> lbls, occ |-> occ, dest |-> dest, ok |-> ok]

\* what the tracker's issue list shows of an issue
Snapshot(i) ==
    [number |-> i, state |-> issues[i].state, comments |-> issues[i].comments]

SearchStatesOpenOnly == {"open"}

\* the value of the state parameter of the search request
SearchStates == {"open", "closed"}

RECURSIVE Matching(_, _)
Matching(labelName, n) ==
    IF n = 0 THEN <<>>
    ELSE IF \E k \in 1..Len(issues[n].labels) : issues[n].labels[k] = labelName
            /\ issues[n].state \in SearchStates
         THEN Append(Matching(labelName, n - 1), Snapshot(n))
         ELSE Matching(labelName, n - 1)

Reverse(s) == [i \in 1..Len(s) |-> s[Len(s) + 1 - i]]

\* SearchIssues: the issues carrying the label, in the tracker's order
\* (ascending or descending by number)
SearchIssues(labelName, rev) ==
    IF rev THEN Reverse(Matching(labelName, Len(issues)))
    ELSE Matching(labelName, Len(issues))

\* createLabel's error for a response; <<>> is nil.  status 0 is a transport error.
createLabelError(resp) ==
    IF resp.status = 0 THEN <<"failed to create label: ", resp.text>>
    ELSE IF resp.status # 201
         THEN <<"Gitea returned status ", ToString(resp.status), ": ", resp.text>>
         ELSE <<>>

contains409Never(err) == FALSE

\* strings.Contains(err.Error(), "409") over the tokens of the error text
Contains409(err) ==
    \E i \in 1..Len(err) : err[i] \in {"409", "see issue 409"}

EnsureLabel(resp) ==
    LET err == createLabelError(resp)
    IN  IF err # <<>> /\ ~Contains409(err) THEN err ELSE <<>>

\* the responses the tracker can give to a create-label request.  Which labels
\* exist in the tracker is not part of the state (the processor never reads it),
\* so "created" and "already exists" are both possible answers at any time.
LabelAnswers ==
    {[status |-> 201, text |-> ""],
     [status |-> 409, text |-> "label already exists"],
     [status |-> 500, text |-> "internal error"],
     [status |-> 500, text |-> "see issue 409"],
     [status |-> 0, text |-> "connection refused"]}

----------------------------------------------------------------------------
(* The issue lifecycle engine *)

Notifiers == 1..NumNotifiers

notifyUntilFailure(op, number, occ, failing) ==
    LET stop == IF failing = {} THEN NumNotifiers
                ELSE CHOOSE i \in failing : \A k \in failing : i <= k
    IN  [i \in 1..stop |-> Call(op, number, <<>>, occ, i, i \notin failing)]

\* the notification loop: every configured notifier is called, a failure is logged
NotifyAll(op, number, occ, failing) ==
    [i \in 1..NumNotifiers |-> Call(op, number, <<>>, occ, i, i \notin failing)]

severityAlwaysCritical(entry) == <<"severity:critical">>

severityLabel(entry) ==
    IF entry.Status >= CriticalStatus THEN <<"severity:critical">> ELSE <<"severity:error">>

ensureLabelErrorReturned(ensureErr) == ensureErr

\* the error createNewIssue returns after EnsureLabel returned ensureErr; <<>> is
\* nil: the failure is logged as a warning and not returned
ensureLabelError(ensureErr) == <<>>

notifiedPrevious(number) == number - 1

\* IssueInfo.Number of the new-issue notification: the number CreateIssue returned
notifiedNumber(number) == number

createNewIssue(entry, bugID, bugIDLabel, o) ==
    LET title == titleOf[entry]
        lbls == <<(<<"auto-generated">>), bugIDLabel, severityLabel(entry)>>
        ensureErr == EnsureLabel(o.labelResp)
        ensure == Call("EnsureLabel", 0, <<bugIDLabel>>, 0, 0, ensureErr = <<>>)
        number == Len(issues) + 1
        issue == [title |-> title, labels |-> lbls, state |-> "open", comments |-> 0]
    IN  IF ensureLabelError(ensureErr) # <<>>
        THEN [issues |-> issues, calls |-> <<ensure>>, err |-> ensureLabelError(ensureErr)]
        ELSE IF ~o.createOK
        THEN [issues |-> issues,
              calls |-> <<ensure, Call("CreateIssue", 0, lbls, 0, 0, FALSE)>>,
              err |-> <<"failed to create issue">>]
        ELSE [issues |-> Append(issues, issue),
              calls |-> <<ensure, Call("CreateIssue", number, lbls, 0, 0, TRUE)>>
                        \o NotifyAll("NotifyNewIssue", notifiedNumber(number), 0, o.failing),
              err |-> <<>>]

occurrencesAlwaysSecond(existing) == 2

occurrencesOffByOne(existing) == existing.comments + 1

occurrencesOf(existing) == existing.comments + 2

addCommentErrorIgnored(ok) == <<>>

\* the error updateExistingIssue returns after AddComment; <<>> is nil
addCommentError(ok) == IF ok THEN <<>> ELSE <<"failed to add comment">>

needsReopenNever(existing) == FALSE

\* whether updateExistingIssue calls ReopenIssue for the issue it commented on
needsReopen(existing) == existing.state = "closed"

notifiesReopenAlways(reopenOK) == TRUE

\* whether the reopened notifications are sent after ReopenIssue returned
notifiesReopen(reopenOK) == reopenOK

commentRemoved(count) == count - 1

\* the number of comments of an issue after AddComment posted one to it
commentAdded(count) == count + 1

updateExistingIssue(existing, entry, o) ==
    LET occurrences == occurrencesOf(existing)
        comment == generateComment(entry, occurrences)
        n == existing.number
        add == Call("AddComment", n, <<>>, comment.occurrences, 0, o.commentOK)
        commented == IF o.commentOK THEN [issues EXCEPT ![n].comments = commentAdded(@)]
                     ELSE issues
        reopen == Call("ReopenIssue", n, <<>>, 0, 0, o.reopenOK)
        reopened == IF o.reopenOK THEN [commented EXCEPT ![n].state = "open"] ELSE commented
    IN  IF addCommentError(o.commentOK) # <<>>
        THEN [issues |-> commented, calls |-> <<add>>, err |-> addCommentError(o.commentOK)]
        ELSE IF ~needsReopen(existing)
        THEN [issues |-> commented, calls |-> <<add>>, err |-> <<>>]
        ELSE [issues |-> reopened,
              calls |-> <<add, reopen>>
                        \o (IF notifiesReopen(o.reopenOK)
                            THEN NotifyAll("NotifyReopenedIssue", n, occurrences, o.failing)
                            ELSE <<>>),
              err |-> <<>>]

pickLast(found) == found[Len(found)]

\* the issue processEntry updates among those the search returned
pickExisting(found) == found[1]

isFirstSightingAlways(found) == TRUE

\* which branch processEntry takes on the search result
isFirstSighting(found) == Len(found) = 0

processEntry(entry, o) ==
    LET bugID == bugIDOf[entry]
        bugIDLabel == BugIDLabel(bugID)
        search(ok) == Call("SearchIssues", 0, <<bugIDLabel>>, 0, 0, ok)
        found == SearchIssues(bugIDLabel, o.rev)
    IN  IF ~o.searchOK
        THEN [issues |-> issues, found |-> <<>>,
              calls |-> <<search(FALSE)>>, err |-> <<"failed to search issues">>]
        ELSE LET r == IF isFirstSighting(found)
                      THEN createNewIssue(entry, bugID, bugIDLabel, o)
                      ELSE updateExistingIssue(pickExisting(found), entry, o)
             IN  [issues |-> r.issues, found |-> found,
                  calls |-> <<search(TRUE)>> \o r.calls, err |-> r.err]

Outcome(s, rv, lr, c, m, r, f) ==
    [searchOK |-> s, rev |-> rv, labelResp |-> lr, createOK |-> c, commentOK |-> m,
     reopenOK |-> r, failing |-> f]

\* the outcomes the collaborators can produce while one entry is processed; an
\* outcome no call consults is left at its default.  The tracker holds at most
\* MaxComments comments per issue in the model: it refuses the comment that
\* would exceed it.
Outcomes(entry) ==
    LET name == BugIDLabel(bugIDOf[entry])
        none == [status |-> 201, text |-> ""]
        asc == SearchIssues(name, FALSE)
        revs == IF Len(asc) > 1 THEN BOOLEAN ELSE {FALSE}
        upd(rv) ==
            LET existing == SearchIssues(name, rv)[1]
            IN  {Outcome(TRUE, rv, none, FALSE, FALSE, FALSE, {})}
                \cup (IF existing.comments >= MaxComments THEN {}
                      ELSE IF existing.state # "closed"
                      THEN {Outcome(TRUE, rv, none, FALSE, TRUE, FALSE, {})}
                      ELSE {Outcome(TRUE, rv, none, FALSE, TRUE, FALSE, {})}
                           \cup {Outcome(TRUE, rv, none, FALSE, TRUE, TRUE, f) :
                                    f \in SUBSET Notifiers})
    IN  {Outcome(FALSE, FALSE, none, FALSE, FALSE, FALSE, {})}
        \cup (IF isFirstSighting(asc)
              THEN {Outcome(TRUE, FALSE, lr, FALSE, FALSE, FALSE, {}) :
                        lr \in LabelAnswers}
                   \cup {Outcome(TRUE, FALSE, lr, TRUE, FALSE, FALSE, f) :
                            lr \in LabelAnswers, f \in SUBSET Notifiers}
              ELSE UNION {upd(rv) : rv \in revs})

NoLast == [entry |-> <<>>, found |-> <<>>, calls |-> <<>>, err |-> <<>>]

----------------------------------------------------------------------------
(* Processor.Start and Processor.poll *)

NewProcessor ==
    /\ clock = 0
    /\ lastPoll = clock - Lookback
    /\ pc = "start"
    /\ tick = FALSE
    /\ cancelled = FALSE
    /\ query = <<>>
    /\ qRes = "none"
    /\ failedStart = <<>>
    /\ remaining = 0
    /\ issues = <<>>
    /\ last = NoLast
    /\ batch = <<>>
    /\ handed = <<>>
    /\ failed = {}

\* one Processor and an empty tracker
Init ==
    /\ NewProcessor
    /\ arg = <<>>
    /\ ret = <<>>
    /\ engines = <<>>
    /\ labels = {}

afterTestConnectionFatal(ok) == IF ok THEN "poll" ELSE "stopped"

\* where Start goes after TestConnection returned: a failure is logged
afterTestConnection(ok) == "poll"

\* Start up to the initial poll: TestConnection and ensureLabels (whose results are
\* only logged), then the ticker is created
Start ==
    /\ pc = "start"
    /\ \E ok \in BOOLEAN : pc' = afterTestConnection(ok)
    /\ UNCHANGED <<clock, lastPoll, tick, cancelled, query, qRes, failedStart, remaining,
                   issues, last,
                   batch, handed>>
    /\ UNCHANGED <<pureVars, raceVars, failed>>

queryWindowOverlapping(lp, now) == [start |-> lp - 1, end |-> now]

queryWindowLookback(lp, now) == [start |-> now - Lookback, end |-> now]

\* the window poll asks for, given the watermark and the time it read
queryWindow(lp, now) == [start |-> lp, end |-> now]

\* poll, up to the QueryRange request: now := time.Now(); start := p.lastPoll
PollBegin ==
    /\ pc = "poll"
    /\ pc' = "querying"
    /\ query' = <<queryWindow(lastPoll, clock)>>
    /\ UNCHANGED <<clock, lastPoll, tick, cancelled, qRes, failedStart, remaining,
                   issues, last,
                   batch, handed>>
    /\ UNCHANGED <<pureVars, raceVars, failed>>

watermarkAhead(ok, now, lp) == IF ok THEN now + 1 ELSE lp

watermarkAlwaysAdvanced(ok, now, lp) == now

watermarkNeverAdvanced(ok, now, lp) == lp

\* the watermark after QueryRange returned
watermarkAfter(ok, now, lp) == IF ok THEN now ELSE lp

\* QueryRange returns an error: poll logs and returns
QueryFail ==
    /\ pc = "querying"
    /\ qRes' = "fail"
    /\ failedStart' = <<query[1].start>>
    /\ lastPoll' = watermarkAfter(FALSE, query[1].end, lastPoll)
    /\ query' = <<>>
    /\ pc' = "idle"
    /\ UNCHANGED <<clock, tick, cancelled, remaining, issues, last,
                   batch, handed>>
    /\ UNCHANGED <<pureVars, raceVars, failed>>

\* QueryRange returns one of answers: the watermark advances; poll returns if
\* there are no entries
QueryRangeOK(answers) ==
    /\ pc = "querying"
    /\ \E entries \in answers :
        /\ remaining' = Len(entries)
        /\ batch' = IF Len(entries) = 0 THEN <<>> ELSE entries
        /\ qRes' = IF Len(entries) = 0 THEN "empty" ELSE "found"
        /\ pc' = IF Len(entries) = 0 THEN "idle" ELSE "processing"
    /\ failedStart' = <<>>
    /\ lastPoll' = watermarkAfter(TRUE, query[1].end, lastPoll)
    /\ query' = <<>>
    /\ UNCHANGED <<clock, tick, cancelled, issues, last, handed>>
    /\ UNCHANGED <<pureVars, raceVars>>

\* QueryRange returns entries, any the log source may hold
QueryOK ==
    /\ QueryRangeOK(Batches)
    /\ UNCHANGED failed

\* the position of batch the range loop is at
position == Len(batch) - remaining + 1

handsOverAll(entry) == TRUE

\* whether the range loop hands the entry to processEntry
handsOver(entry) == IsError(entry)

loopStopsAtError(err) == err = <<>>

\* whether the range loop goes on after processEntry returned err: the error is logged
loopContinues(err) == TRUE

\* one iteration of the range loop on an entry that is no error
SkipEntry ==
    /\ pc = "processing"
    /\ remaining > 0
    /\ ~handsOver(batch[position])
    /\ remaining' = remaining - 1
    /\ last' = NoLast
    /\ UNCHANGED <<clock, lastPoll, pc, tick, cancelled, query, qRes, failedStart, issues,
                   batch, handed>>
    /\ UNCHANGED <<pureVars, raceVars, failed>>

\* one iteration of the range loop on an error entry: processEntry, its error logged
RangeLoopProcess ==
    /\ pc = "processing"
    /\ remaining > 0
    /\ handsOver(batch[position])
    /\ \E entry \in {batch[position]} :
        \E o \in Outcomes(entry) :
            \E r \in {processEntry(entry, o)} :
                /\ issues' = r.issues
                /\ last' = [entry |-> <<entry>>, found |-> r.found,
                            calls |-> r.calls, err |-> r.err]
                /\ handed' = Append(handed, position)
                /\ pc' = IF loopContinues(r.err) THEN "processing" ELSE "idle"
    /\ remaining' = remaining - 1
    /\ UNCHANGED <<clock, lastPoll, tick, cancelled, query, qRes, failedStart, batch>>
    /\ UNCHANGED <<pureVars, raceVars>>

ProcessEntry ==
    /\ RangeLoopProcess
    /\ UNCHANGED failed

\* the range loop is over: poll returns
PollReturn ==
    /\ pc = "processing"
    /\ remaining = 0
    /\ pc' = "idle"
    /\ last' = NoLast
    /\ batch' = <<>>
    /\ handed' = <<>>
    /\ UNCHANGED <<clock, lastPoll, tick, cancelled, query, qRes, failedStart, remaining,
                   issues>>
    /\ UNCHANGED <<pureVars, raceVars, failed>>

\* the select of Start's loop takes the ticker case
SelectTick ==
    /\ pc = "idle"
    /\ tick
    /\ tick' = FALSE
    /\ pc' = "poll"
    /\ UNCHANGED <<clock, lastPoll, cancelled, query, qRes, failedStart, remaining,
                   issues, last,
                   batch, handed>>
    /\ UNCHANGED <<pureVars, raceVars, failed>>

doneNeverReady(c) == FALSE

\* whether the ctx.Done() case of the select is ready
doneReady(c) == c

\* the select of Start's loop takes the ctx.Done() case: Start returns
SelectDone ==
    /\ pc = "idle"
    /\ doneReady(cancelled)
    /\ pc' = "stopped"
    /\ UNCHANGED <<clock, lastPoll, tick, cancelled, query, qRes, failedStart, remaining,
                   issues, last,
                   batch, handed>>
    /\ UNCHANGED <<pureVars, raceVars, failed>>

----------------------------------------------------------------------------
(* The environment.  The processor reads the ticker and the context only in *)
(* the select of Start's loop, the clock only at the start of poll and the  *)
(* tracker only in processEntry.  So a tick or a signal that arrives during *)
(* a cycle is delivered at the select that first observes it, the time that *)
(* passes is added to the clock just before poll reads it, and users act on *)
(* the tracker between cycles.                                              *)

\* the ticker fires; its channel holds one tick
Tick ==
    /\ pc = "idle"
    /\ ~tick
    /\ tick' = TRUE
    /\ UNCHANGED <<clock, lastPoll, pc, cancelled, query, qRes, failedStart, remaining,
                   issues, last,
                   batch, handed>>
    /\ UNCHANGED <<pureVars, raceVars, failed>>

\* time passes
Advance ==
    /\ pc = "poll"
    /\ clock < MaxTime
    /\ clock' = clock + 1
    /\ UNCHANGED <<lastPoll, pc, tick, cancelled, query, qRes, failedStart, remaining,
                   issues, last,
                   batch, handed>>
    /\ UNCHANGED <<pureVars, raceVars, failed>>

\* SIGINT or SIGTERM: main's goroutine cancels the context
Cancel ==
    /\ pc \in {"start", "idle"}
    /\ ~cancelled
    /\ cancelled' = TRUE
    /\ UNCHANGED <<clock, lastPoll, pc, tick, query, qRes, failedStart, remaining,
                   issues, last,
                   batch, handed>>
    /\ UNCHANGED <<pureVars, raceVars, failed>>

\* the process is started again after Start returned: main builds a new Processor
\* and calls Start with a new context; the tracker keeps its issues
Restart ==
    /\ pc = "stopped"
    /\ pc' = "start"
    /\ lastPoll' = clock - Lookback
    /\ tick' = FALSE
    /\ cancelled' = FALSE
    /\ qRes' = "none"
    /\ failedStart' = <<>>
    /\ UNCHANGED <<clock, query, remaining, issues, last, batch, handed>>
    /\ UNCHANGED <<pureVars, raceVars, failed>>

\* a user closes an issue in the tracker's UI
UserClose ==
    /\ pc = "idle"
    /\ \E i \in 1..Len(issues) :
        /\ issues[i].state = "open"
        /\ issues' = [issues EXCEPT ![i].state = "closed"]
    /\ UNCHANGED <<clock, lastPoll, pc, tick, cancelled, query, qRes, failedStart,
                   remaining, last,
                   batch, handed>>
    /\ UNCHANGED <<pureVars, raceVars, failed>>

Next ==
    \/ Start
    \/ PollBegin
    \/ QueryFail
    \/ QueryOK
    \/ SkipEntry
    \/ ProcessEntry
    \/ PollReturn
    \/ SelectTick
    \/ SelectDone
    \/ Tick
    \/ Advance
    \/ Cancel
    \/ Restart
    \/ UserClose

Spec == Init /\ [][Next]_vars

\* a step of Start: each call Start makes returns, and the select proceeds when
\* one of its cases is ready
ProcessorStep ==
    \/ Start
    \/ PollBegin
    \/ QueryFail
    \/ QueryOK
    \/ SkipEntry
    \/ ProcessEntry
    \/ PollReturn
    \/ SelectTick
    \/ SelectDone

\* Start keeps running, the select, which picks at random among its ready cases,
\* does not pass over the ctx.Done() case forever, and the ticker keeps ticking
Fairness ==
    /\ WF_vars(ProcessorStep)
    /\ SF_vars(SelectDone)
    /\ WF_vars(Tick)

\* Start with its ticker and the signal handler: the steps that decide whether
\* Start polls again or returns.  The clock stands still and no user acts on
\* the tracker.
LoopNext ==
    \/ ProcessorStep
    \/ Tick
    \/ Cancel

LoopSpec == Init /\ [][LoopNext]_vars /\ Fairness

----------------------------------------------------------------------------
(* Vocabulary of the properties *)

TrackerOps == {"SearchIssues", "EnsureLabel", "CreateIssue", "AddComment", "ReopenIssue"}

MutationOps == {"CreateIssue", "AddComment", "ReopenIssue"}

NotifyOps == {"NotifyNewIssue", "NotifyReopenedIssue"}

\* the positions of the calls of operation op in the call sequence
CallsOf(calls, op) == {i \in 1..Len(calls) : calls[i].op = op}

\* processEntry ran in the latest loop iteration
Processed == last.entry # <<>>

\* the search call of the latest processEntry succeeded
SearchSucceeded == Processed /\ last.calls[1].op = "SearchIssues" /\ last.calls[1].ok

\* every tracker call of the latest processEntry succeeded
AllTrackerCallsOK == \A i \in 1..Len(last.calls) : last.calls[i].op \in TrackerOps => last.calls[i].ok

\* the step is the return of a query, with the given outcomes
QueryReturns(outcomes) == pc = "querying" /\ pc' # "querying" /\ qRes' \in outcomes

\* the step starts a poll cycle: the query is issued
QueryIssued == pc = "poll" /\ pc' = "querying"

\* the step is one processEntry
ProcessEntryStep == pc = "processing" /\ remaining' = remaining - 1 /\ last'.entry # <<>>

----------------------------------------------------------------------------
(* C1: when the query of a poll cycle fails, poll returns with the watermark *)
(* unchanged and without any tracker or notifier call (the tracker is        *)
(* untouched and no processEntry ran), and the next cycle issues its query   *)
(* with the start time of the failed one.                                    *)
C1_NoAdvanceOnFailure ==
    [][ /\ QueryReturns({"fail"}) =>
            /\ lastPoll' = lastPoll
            /\ pc' = "idle"
            /\ issues' = issues
            /\ last = NoLast /\ last' = NoLast
        /\ (QueryIssued /\ failedStart # <<>>) =>
            /\ query'[1].start = failedStart[1]
            /\ issues' = issues /\ last' = NoLast ]_vars

\* a query is re-issued after a failed cycle that followed a successful one
C1_Witness ==
    /\ pc = "querying"
    /\ failedStart # <<>>
    /\ query[1].start = 0
    /\ query[1].end = 1
    /\ Len(issues) > 0

(* C2: when the query of a poll cycle succeeds, the watermark becomes the    *)
(* end time passed to that query, for every number of returned entries, and  *)
(* stays there while the entries are processed, whatever processEntry does.  *)
C2_AdvanceOnSuccess ==
    [][ /\ QueryReturns({"empty", "found"}) => lastPoll' = query[1].end
        /\ pc = "processing" => lastPoll' = lastPoll ]_vars

\* a successful query with zero entries has advanced the watermark
C2_Witness ==
    /\ pc = "idle"
    /\ qRes = "empty"
    /\ lastPoll = 1

(* C3: every query starts at the watermark, and while Start runs the         *)
(* watermark changes only when a query succeeds, to the end of that query,   *)
(* whose start was the watermark: the windows of the successful queries      *)
(* follow one another from the initial watermark with no gap and no overlap. *)
C3_WindowContinuity ==
    [][ /\ QueryIssued => query'[1].start = lastPoll
        /\ (lastPoll' # lastPoll /\ pc # "stopped") =>
            /\ QueryReturns({"empty", "found"})
            /\ query[1].start = lastPoll
            /\ lastPoll' = query[1].end
            /\ lastPoll' > lastPoll ]_vars

\* a second successful window follows the first: [-Lookback, 0) then [0, 1)
C3_Witness ==
    /\ pc = "querying"
    /\ failedStart = <<>>
    /\ qRes \in {"empty", "found"}
    /\ query[1] = [start |-> 0, end |-> 1]

(* C4: on a first sighting (the search succeeds and returns no issue) with   *)
(* all tracker calls succeeding, processEntry makes exactly one CreateIssue  *)
(* call with the labels auto-generated, bugid:<fp> and one severity label    *)
(* (critical iff status >= 500, else error), no AddComment and no            *)
(* ReopenIssue call, and one NotifyNewIssue call per configured notifier.    *)
C4_FirstSighting ==
    (SearchSucceeded /\ last.found = <<>> /\ AllTrackerCallsOK) =>
        LET entry == last.entry[1]
            creates == CallsOf(last.calls, "CreateIssue")
            lbls == last.calls[CHOOSE i \in creates : TRUE].labels
            severity == IF entry.Status >= 500 THEN <<"severity:critical">>
                                               ELSE <<"severity:error">>
        IN  /\ Cardinality(creates) = 1
            /\ Len(lbls) = 3
            /\ {lbls[k] : k \in 1..3} =
                   {<<"auto-generated">>, BugIDLabel(GenerateBugID(entry)), severity}
            /\ CallsOf(last.calls, "AddComment") = {}
            /\ CallsOf(last.calls, "ReopenIssue") = {}
            /\ CallsOf(last.calls, "NotifyReopenedIssue") = {}
            /\ \A n \in Notifiers :
                   Cardinality({i \in CallsOf(last.calls, "NotifyNewIssue") :
                                    last.calls[i].dest = n}) = 1
            /\ Cardinality(CallsOf(last.calls, "NotifyNewIssue")) = NumNotifiers

\* an entry with level error and status below 500 was seen for the first time
C4_Witness ==
    /\ SearchSucceeded /\ last.found = <<>> /\ AllTrackerCallsOK
    /\ last.entry[1] = EntryExplicit
    /\ Len(issues) = 2

(* C5: whenever an issue, open or closed, carries the label bugid:<fp> of    *)
(* the entry, processEntry makes no CreateIssue call.                        *)
C5_NoCreateWhenTracked ==
    [][ (/\ ProcessEntryStep
         /\ \E i \in 1..Len(issues) : \E k \in 1..Len(issues[i].labels) :
                issues[i].labels[k] = BugIDLabel(GenerateBugID(last'.entry[1])))
        => CallsOf(last'.calls, "CreateIssue") = {} ]_vars

\* the entry's issue was closed and processEntry found it
C5_Witness ==
    /\ SearchSucceeded
    /\ Len(last.found) = 1
    /\ last.found[1].state = "closed"
    /\ CallsOf(last.calls, "CreateIssue") = {}

\* the search of the latest processEntry succeeded and its first result has the state
FirstFound(state) ==
    SearchSucceeded /\ Len(last.found) >= 1 /\ last.found[1].state = state

\* call i of the latest processEntry is an AddComment on the first result found,
\* stamped with its comment count plus two
IsCommentOnFirst(i) ==
    /\ last.calls[i].op = "AddComment"
    /\ last.calls[i].number = last.found[1].number
    /\ last.calls[i].occ = last.found[1].comments + 2

\* what C6 says of the calls of a recurrence on an open issue
C6_Calls ==
    /\ Len(last.calls) = 2
    /\ IsCommentOnFirst(2)
    /\ CallsOf(last.calls, "ReopenIssue") = {}
    /\ CallsOf(last.calls, "CreateIssue") = {}
    /\ \A i \in 1..Len(last.calls) : last.calls[i].op \notin NotifyOps

(* C6 as stated: when the first issue found is open with comment count c,   *)
(* processEntry makes exactly one AddComment call on it stamped c + 2, no    *)
(* ReopenIssue and no CreateIssue call, emits no notification, and reports   *)
(* success.                                                                  *)
C6_Original ==
    FirstFound("open") => (C6_Calls /\ last.err = <<>>)

(* C6 as amended: the same calls; processEntry reports success exactly when  *)
(* that AddComment call succeeds, and then the issue holds one more comment. *)
C6_Recurrence ==
    FirstFound("open") =>
        /\ C6_Calls
        /\ last.err = <<>> <=> last.calls[2].ok
        /\ last.calls[2].ok =>
               issues[last.found[1].number].comments = last.found[1].comments + 1

\* a recurrence on an open issue was commented
C6_Witness ==
    /\ FirstFound("open")
    /\ last.calls[2].ok
    /\ last.err = <<>>
    /\ last.entry[1] = EntryPut123

(* C7: when the first issue found is closed with comment count c and all     *)
(* tracker calls succeed, processEntry makes exactly one AddComment call     *)
(* followed by exactly one ReopenIssue call on that issue, and then exactly  *)
(* one NotifyReopenedIssue call per configured notifier, carrying c + 2.     *)
C7_Reopen ==
    (FirstFound("closed") /\ AllTrackerCallsOK) =>
        /\ Len(last.calls) = 3 + NumNotifiers
        /\ IsCommentOnFirst(2)
        /\ last.calls[3].op = "ReopenIssue"
        /\ last.calls[3].number = last.found[1].number
        /\ \A i \in 4..Len(last.calls) :
            /\ last.calls[i].op = "NotifyReopenedIssue"
            /\ last.calls[i].number = last.found[1].number
            /\ last.calls[i].occ = last.found[1].comments + 2
        /\ \A n \in Notifiers :
               Cardinality({i \in 4..Len(last.calls) : last.calls[i].dest = n}) = 1
        /\ issues[last.found[1].number].state = "open"
        /\ last.err = <<>>

\* a closed issue was commented and reopened
C7_Witness ==
    /\ FirstFound("closed")
    /\ AllTrackerCallsOK
    /\ issues[last.found[1].number].state = "open"
    /\ issues[last.found[1].number].comments = 1

\* the AddComment call of the latest processEntry succeeded and its ReopenIssue call failed
ReopenFailed ==
    /\ Processed
    /\ \E i \in CallsOf(last.calls, "AddComment") : last.calls[i].ok
    /\ \E i \in CallsOf(last.calls, "ReopenIssue") : ~last.calls[i].ok

(* C8: when the AddComment call on a closed issue succeeds and the           *)
(* ReopenIssue call that follows fails, processEntry reports success, no     *)
(* reopened notification is emitted, and the issue is closed with the new    *)
(* comment recorded.                                                         *)
C8_ReopenBestEffort ==
    ReopenFailed =>
        /\ last.err = <<>>
        /\ \A i \in 1..Len(last.calls) : last.calls[i].op \notin NotifyOps
        /\ issues[last.found[1].number].state = "closed"
        /\ issues[last.found[1].number].comments = last.found[1].comments + 1

\* a reopen failed after the comment was recorded
C8_Witness ==
    /\ ReopenFailed
    /\ issues[last.found[1].number].comments = 1
    /\ last.err = <<>>

(* C9: when the SearchIssues, the CreateIssue or the AddComment call fails,  *)
(* processEntry returns an error and that call is its last one: no later     *)
(* tracker call and no notification, and the tracker is as the search saw it.*)
C9_AbortOnTrackerFailure ==
    Processed =>
        \A i \in 1..Len(last.calls) :
            (last.calls[i].op \in {"SearchIssues", "CreateIssue", "AddComment"}
             /\ ~last.calls[i].ok) =>
                /\ last.err # <<>>
                /\ i = Len(last.calls)
                /\ last.calls[i].op = "SearchIssues" => Len(last.calls) = 1
                /\ \A k \in 1..Len(last.found) :
                       Snapshot(last.found[k].number) = last.found[k]

\* the comment on a closed issue failed: no reopen followed
C9_Witness ==
    /\ FirstFound("closed")
    /\ ~last.calls[2].ok
    /\ last.err # <<>>
    /\ Len(last.calls) = 2

\* the positions of the failed EnsureLabel calls of the latest processEntry
EnsureFailures == {i \in CallsOf(last.calls, "EnsureLabel") : ~last.calls[i].ok}

----------------------------------------------------------------------------
(* The range loop of poll *)

\* position i of batch holds an entry that qualifies as an error
QualifiesAt(i) == IsError(batch[i])

\* the qualifying positions among the first n positions of batch, in order
QualifyingPositions(n) == SelectSeq([i \in 1..n |-> i], QualifiesAt)

\* an issue carries the bugid label of the entry
Tracked(entry) ==
    \E i \in 1..Len(issues) : \E k \in 1..Len(issues[i].labels) :
        issues[i].labels[k] = BugIDLabel(GenerateBugID(entry))

(* C11: a processEntry that returns an error leaves the range loop running   *)
(* at the next position of the same batch, and poll leaves the loop only     *)
(* when no position remains, every qualifying position of the batch having   *)
(* been handed to processEntry.                                              *)
C11_BatchSurvivesFailures ==
    [][ /\ (ProcessEntryStep /\ last'.err # <<>>) =>
            /\ pc' = "processing"
            /\ batch' = batch
            /\ remaining' = remaining - 1
        /\ (pc = "processing" /\ pc' # "processing") =>
            /\ remaining = 0
            /\ \A i \in 1..Len(batch) :
                   QualifiesAt(i) => \E k \in 1..Len(handed) : handed[k] = i ]_vars

\* the entry at position 1 was handed over and is not tracked (its processing
\* failed), and the entry at position 2 was processed with success
C11_Witness ==
    /\ pc = "processing"
    /\ remaining = 0
    /\ handed = <<1, 2>>
    /\ batch[1] = EntryExplicit
    /\ ~Tracked(EntryExplicit)
    /\ last.entry = <<EntryPut123>>
    /\ last.err = <<>>

(* C12: while a cycle processes its batch, the positions handed to           *)
(* processEntry are exactly the qualifying positions the loop has passed, in *)
(* the batch's order; each step of the loop takes the next position of the   *)
(* batch: a qualifying entry is handed to one processEntry, a non-qualifying *)
(* entry causes no call and leaves the tracker as it is.                     *)
C12_OrderedFilteredHandOff ==
    [][ pc = "processing" =>
            /\ handed = QualifyingPositions(position - 1)
            /\ remaining > 0 =>
                /\ remaining' = remaining - 1
                /\ batch' = batch
                /\ IF QualifiesAt(position)
                   THEN /\ last'.entry = <<batch[position]>>
                        /\ handed' = Append(handed, position)
                   ELSE /\ last' = NoLast
                        /\ issues' = issues
                        /\ handed' = handed
            /\ remaining = 0 => pc' = "idle" ]_vars

\* a non-qualifying entry was passed over and the entry after it was handed over
C12_Witness ==
    /\ pc = "processing"
    /\ remaining = 0
    /\ batch = <<EntryInfo, EntryExplicit>>
    /\ handed = <<2>>
    /\ last.entry = <<EntryExplicit>>
    /\ Len(issues) = 1

----------------------------------------------------------------------------
(* LogEntry.IsError applied to entries of every level and status *)

\* the spellings of a word in every mix of upper and lower case letters
CaseVariants(word) ==
    {[i \in 1..Len(word) |-> IF upper[i] THEN ToUpperChar(word[i]) ELSE word[i]] :
        upper \in [1..Len(word) -> BOOLEAN]}

TestLevels ==
    CaseVariants(Levelerror)
    \cup {<<>>, <<"i", "n", "f", "o">>, <<"w", "a", "r", "n">>,
          <<"e", "r", "r">>, <<"e", "r", "r", "o", "r", "s">>}

TestStatuses == {0, 200, 499, 500, 501, 599}

TestEntries ==
    {[EntryInfo EXCEPT !.Level = level, !.Status = status] :
        level \in TestLevels, status \in TestStatuses}

IsErrorInit ==
    /\ NewProcessor
    /\ issues = <<>>
    /\ arg \in {<<entry>> : entry \in TestEntries}
    /\ ret = <<>>
    /\ engines = <<>>
    /\ labels = {}

\* entry.IsError() is called
CallIsError ==
    /\ arg # <<>>
    /\ ret = <<>>
    /\ ret' = <<IsError(arg[1])>>
    /\ UNCHANGED <<pollVars, issues, arg, raceVars, failed>>

IsErrorSpec == IsErrorInit /\ [][CallIsError]_vars

\* two texts are equal under case folding
EqualFold(a, b) == ToUpper(a) = ToUpper(b)

(* C13 as stated: IsError is true if and only if the entry's level equals    *)
(* "error" compared case-insensitively or its status code is at least 500.   *)
C13_Original ==
    ret # <<>> =>
        (ret[1] <=> (EqualFold(arg[1].Level, Levelerror) \/ arg[1].Status >= 500))

\* IsError is false for the level "Error" with status 0
C13_Witness ==
    /\ ret = <<FALSE>>
    /\ arg[1].Level = <<"E", "r", "r", "o", "r">>
    /\ arg[1].Status = 0

----------------------------------------------------------------------------
(* One worker *)

\* the issues that carry the label
Carrying(labelName) ==
    {i \in 1..Len(issues) :
        \E k \in 1..Len(issues[i].labels) : issues[i].labels[k] = labelName}

BugIDLabels == {BugIDLabel(GenerateBugID(entry)) : entry \in Entries}

(* C14: with one Processor, at most one issue carries any bugid:<fp> label,  *)
(* over all poll cycles and restarts; a processEntry whose tracker calls all *)
(* succeed creates an issue only when the search found none, and otherwise   *)
(* appends one comment to the issue found and creates nothing.               *)
C14_OneIssuePerFingerprint ==
    /\ \A name \in BugIDLabels : Cardinality(Carrying(name)) <= 1
    /\ (Processed /\ AllTrackerCallsOK) =>
        LET name == BugIDLabel(GenerateBugID(last.entry[1]))
            creates == CallsOf(last.calls, "CreateIssue")
            comments == CallsOf(last.calls, "AddComment")
        IN  IF last.found = <<>>
            THEN /\ Cardinality(creates) = 1
                 /\ comments = {}
                 /\ Carrying(name) = {Len(issues)}
            ELSE /\ creates = {}
                 /\ Cardinality(comments) = 1
                 /\ Carrying(name) = {last.found[1].number}
                 /\ \A i \in comments : last.calls[i].number = last.found[1].number

\* two entries of one batch have the same fingerprint: one issue, one comment
C14_Witness ==
    /\ pc = "processing"
    /\ batch = <<EntryPut123, EntryPut123>>
    /\ handed = <<1, 2>>
    /\ Len(issues) = 1
    /\ issues[1].comments = 1
    /\ Processed /\ AllTrackerCallsOK
    /\ Len(last.found) = 1

----------------------------------------------------------------------------
(* Two processors that share one tracker.  Each runs processEntry, whose     *)
(* search and whose create or update are separate requests to the tracker:   *)
(* the requests of the other processor, and a user's, come in between.       *)

Processors == {"p1", "p2"}

\* the entry each processor reads from its log source: two entries with the
\* same fingerprint
entryOf(e) == IF e = "p1" THEN EntryPut123 ELSE EntryPut456

\* a processor that has not called processEntry yet
NoInvocation ==
    [pc |-> "ready", entry |-> <<>>, found |-> <<>>, calls |-> <<>>, err |-> <<>>,
     labelStatus |-> 0]

RaceInit ==
    /\ NewProcessor
    /\ issues = <<>>
    /\ arg = <<>>
    /\ ret = <<>>
    /\ engines = [e \in Processors |-> NoInvocation]
    /\ labels = {}

\* processEntry up to the return of SearchIssues
SearchStep(e) ==
    /\ engines[e].pc \in {"ready", "done"}
    /\ \E ok \in BOOLEAN, rev \in BOOLEAN :
        LET entry == entryOf(e)
            name == BugIDLabel(bugIDOf[entry])
            search == Call("SearchIssues", 0, <<name>>, 0, 0, ok)
        IN  /\ rev => Len(SearchIssues(name, FALSE)) > 1
            /\ engines' = [engines EXCEPT ![e] =
                    IF ok
                    THEN [pc |-> "searched", entry |-> <<entry>>,
                          found |-> SearchIssues(name, rev), calls |-> <<search>>,
                          err |-> <<>>, labelStatus |-> 0]
                    ELSE [pc |-> "done", entry |-> <<entry>>, found |-> <<>>,
                          calls |-> <<search>>, err |-> <<"failed to search issues">>,
                          labelStatus |-> 0]]
    /\ UNCHANGED <<pollVars, issues, pureVars, labels, failed>>

\* the answers of the tracker to a create-label request: created or already
\* there, as its labels are, or an internal error
createLabelAnswers(name) ==
    {resp \in LabelAnswers :
        \/ resp.status = (IF name \in labels THEN 409 ELSE 201)
        \/ resp.text = "internal error"}

\* the outcomes of the calls processEntry makes after the search; the
\* notifications are delivered
RaceOutcomes(e) ==
    LET found == engines[e].found
        name == BugIDLabel(bugIDOf[engines[e].entry[1]])
        none == [status |-> 201, text |-> ""]
    IN  IF isFirstSighting(found)
        THEN {Outcome(TRUE, FALSE, lr, c, FALSE, FALSE, {}) :
                 lr \in createLabelAnswers(name), c \in BOOLEAN}
        ELSE {Outcome(TRUE, FALSE, none, FALSE, FALSE, FALSE, {})}
             \cup (IF issues[pickExisting(found).number].comments >= MaxComments THEN {}
                   ELSE {Outcome(TRUE, FALSE, none, FALSE, TRUE, r, {}) :
                            r \in IF needsReopen(pickExisting(found))
                                  THEN BOOLEAN ELSE {FALSE}})

\* processEntry from the return of SearchIssues to its own return
UpdateStep(e) ==
    /\ engines[e].pc = "searched"
    /\ \E o \in RaceOutcomes(e), bugID \in {bugIDOf[engines[e].entry[1]]} :
        LET entry == engines[e].entry[1]
            found == engines[e].found
            name == BugIDLabel(bugID)
            first == isFirstSighting(found)
        IN  \E r \in {IF first
                      THEN createNewIssue(entry, bugID, name, o)
                      ELSE updateExistingIssue(pickExisting(found), entry, o)} :
                /\ issues' = r.issues
                /\ labels' = IF first /\ o.labelResp.status = 201
                              THEN labels \cup {name} ELSE labels
                /\ engines' = [engines EXCEPT ![e] =
                        [pc |-> "done", entry |-> <<entry>>, found |-> found,
                         calls |-> engines[e].calls \o r.calls, err |-> r.err,
                         labelStatus |-> IF first THEN o.labelResp.status ELSE 0]]
    /\ UNCHANGED <<pollVars, pureVars, failed>>

\* a user closes an issue in the tracker's UI
CloseStep ==
    /\ \E i \in 1..Len(issues) :
        /\ issues[i].state = "open"
        /\ issues' = [issues EXCEPT ![i].state = "closed"]
    /\ UNCHANGED <<pollVars, pureVars, raceVars, failed>>

RaceNext ==
    \/ \E e \in Processors : SearchStep(e)
    \/ \E e \in Processors : UpdateStep(e)
    \/ CloseStep

RaceSpec == RaceInit /\ [][RaceNext]_vars

\* the latest processEntry of processor e found no issue and created one
Created(e) ==
    /\ engines[e].pc = "done"
    /\ engines[e].found = <<>>
    /\ \E i \in CallsOf(engines[e].calls, "CreateIssue") : engines[e].calls[i].ok

\* the number of the issue the latest processEntry of processor e created
CreatedNumber(e) ==
    engines[e].calls[CHOOSE i \in CallsOf(engines[e].calls, "CreateIssue") : TRUE].number

(* C15: when the latest processEntry of each of two processors, for entries  *)
(* with the same fingerprint, found no issue and created one (so each search *)
(* returned before the other's create), two different issues carry the same  *)
(* bugid:<fp> label; and a processEntry whose create-label request is        *)
(* answered 409 (the other processor created the label first) has its        *)
(* EnsureLabel report success and goes on to CreateIssue.                    *)
C15_RaceDuplicates ==
    /\ \A a, b \in Processors :
           (a # b /\ Created(a) /\ Created(b)) =>
               LET name == BugIDLabel(GenerateBugID(entryOf(a)))
               IN  /\ name = BugIDLabel(GenerateBugID(entryOf(b)))
                   /\ CreatedNumber(a) # CreatedNumber(b)
                   /\ {CreatedNumber(a), CreatedNumber(b)} \subseteq Carrying(name)
    /\ \A e \in Processors :
           (engines[e].pc = "done" /\ engines[e].labelStatus = 409) =>
               /\ Len(engines[e].calls) >= 3
               /\ engines[e].calls[2].op = "EnsureLabel"
               /\ engines[e].calls[2].ok
               /\ engines[e].calls[3].op = "CreateIssue"

\* both processors created an issue for the fingerprint, the second one after a 409
C15_Witness ==
    /\ Created("p1") /\ Created("p2")
    /\ engines["p1"].err = <<>> /\ engines["p2"].err = <<>>
    /\ engines["p1"].labelStatus = 201
    /\ engines["p2"].labelStatus = 409
    /\ Len(issues) = 2
    /\ Cardinality(Carrying(BugIDLabel(GenerateBugID(EntryPut123)))) = 2

\* the step is the create or update of processor e
IsUpdateStep(e) == engines[e].pc = "searched" /\ engines'[e].pc = "done"

(* C16: when the search returned two or more issues, processEntry comments   *)
(* on the first one returned, reopens that one if the search showed it       *)
(* closed, creates nothing, and leaves every other issue as it is.           *)
C16_FirstResultWins ==
    [][ \A e \in Processors :
            (IsUpdateStep(e) /\ Len(engines[e].found) >= 2) =>
                LET first == engines[e].found[1]
                    calls == engines'[e].calls
                IN  /\ Len(issues') = Len(issues)
                    /\ \A j \in 1..Len(issues) :
                           j # first.number => issues'[j] = issues[j]
                    /\ Len(calls) >= 2
                    /\ calls[2].op = "AddComment"
                    /\ \A i \in 2..Len(calls) : calls[i].number = first.number
                    /\ (calls[2].ok /\ first.state = "closed") =>
                           /\ Len(calls) >= 3
                           /\ calls[3].op = "ReopenIssue"
                    /\ CallsOf(calls, "CreateIssue") = {} ]_vars

\* the search returned issue 2 before issue 1: issue 2, closed, was commented
\* and reopened, issue 1 stays closed without a comment
C16_Witness ==
    \E e \in Processors :
        /\ engines[e].pc = "done"
        /\ Len(engines[e].found) = 2
        /\ engines[e].found[1].number = 2
        /\ engines[e].found[1].state = "closed"
        /\ issues[2].state = "open"
        /\ issues[2].comments = 1
        /\ issues[1].state = "closed"
        /\ issues[1].comments = 0

----------------------------------------------------------------------------
(* Notifications *)

IsTrackerCall(call) == call.op \in TrackerOps

\* the tracker calls among the calls, in order
TrackerCalls(calls) == SelectSeq(calls, IsTrackerCall)

\* the positions of the notifier calls of the latest processEntry
Notifications(calls) == {i \in 1..Len(calls) : calls[i].op \in NotifyOps}

\* the outcome of the collaborators in which the tracker answers as it did to
\* the calls of a processEntry that found the issues found, and in which every
\* delivery succeeds
AllDelivered(entry, found, calls) ==
    LET okOf(op) == \E i \in CallsOf(calls, op) : calls[i].ok
        rev == found # SearchIssues(BugIDLabel(GenerateBugID(entry)), FALSE)
        resp == IF okOf("EnsureLabel") THEN [status |-> 201, text |-> ""]
                ELSE [status |-> 0, text |-> "connection refused"]
    IN  Outcome(okOf("SearchIssues"), rev, resp, okOf("CreateIssue"), okOf("AddComment"),
                okOf("ReopenIssue"), {})

(* C17: a processEntry that reaches its notification loop calls every        *)
(* configured notifier once, whichever deliveries fail, and reports success; *)
(* its tracker calls and the tracker after it are those of a processEntry    *)
(* whose deliveries all succeed.                                             *)
C17_NotificationsNeverEscalate ==
    [][ (ProcessEntryStep /\ Notifications(last'.calls) # {}) =>
            LET entry == last'.entry[1]
                calls == last'.calls
            IN  /\ last'.err = <<>>
                /\ \A n \in Notifiers :
                       Cardinality({i \in Notifications(calls) : calls[i].dest = n}) = 1
                /\ \A o \in {AllDelivered(entry, last'.found, calls)} :
                       \A r \in {processEntry(entry, o)} :
                           /\ r.issues = issues'
                           /\ r.err = last'.err
                           /\ r.found = last'.found
                           /\ TrackerCalls(r.calls) = TrackerCalls(calls) ]_vars

\* the delivery to the first notifier failed: the others were still called and
\* the issue was created
C17_Witness ==
    /\ Processed
    /\ last.err = <<>>
    /\ last.found = <<>>
    /\ Len(issues) = 1
    /\ \E i, k \in Notifications(last.calls) :
           /\ i < k
           /\ last.calls[i].dest = 1 /\ ~last.calls[i].ok
           /\ last.calls[k].dest = NumNotifiers /\ last.calls[k].ok

----------------------------------------------------------------------------
(* Shutdown *)

\* the step begins a poll cycle: Start calls poll
PollCalled == pc \in {"start", "idle"} /\ pc' = "poll"

\* the step is the return of Start
StartReturns == pc # "stopped" /\ pc' = "stopped"

(* C18 as stated: once the cancellation signal has been raised, Start begins *)
(* no further poll cycle.                                                    *)
C18_Original ==
    [][ cancelled => ~PollCalled ]_vars

\* a tick was pending when the signal was raised, and the select took the tick:
\* a poll cycle begins after the cancellation
C18_Witness ==
    /\ cancelled
    /\ pc = "poll"
    /\ qRes # "none"

(* C19: after the cancellation signal is raised Start eventually returns;    *)
(* it returns only from the select between two cycles, when no query is in   *)
(* flight and no entry of a batch is left, and each processEntry that        *)
(* started has returned.                                                     *)
C19_CooperativeShutdown ==
    /\ cancelled ~> pc = "stopped"
    /\ [][ StartReturns =>
               /\ cancelled
               /\ pc = "idle"
               /\ query = <<>>
               /\ remaining = 0
               /\ batch = <<>> ]_vars

\* Start returned after a cycle that ran with the signal raised
C19_Witness ==
    /\ pc = "stopped"
    /\ cancelled
    /\ qRes = "found"
    /\ Len(issues) = 1

(* C20: Start returns only when cancellation is signalled, whatever the      *)
(* connection test, the query, the tracker and the notifiers answer; and     *)
(* every poll cycle is eventually followed by the call of another poll       *)
(* cycle, unless cancellation is signalled.                                  *)
C20_LoopSurvivesFailures ==
    /\ [][ StartReturns => cancelled ]_vars
    /\ [][ (pc \in {"querying", "processing"}) =>
               (pc' \in {"querying", "processing", "idle"}) ]_vars
    /\ pc = "querying" ~> (pc = "poll" \/ cancelled)

\* after a cycle whose query failed and a cycle in which processEntry failed,
\* poll is called again
C20_Witness ==
    /\ pc = "poll"
    /\ ~cancelled
    /\ qRes = "found"
    /\ issues = <<>>

----------------------------------------------------------------------------
(* GenerateBugID applied to pairs of entries *)

MethodPUT == <<"PUT">>

MethodGET == <<"GET">>

ExplicitBugIDs == {<<"db-timeout-coffee">>, <<"x">>}

FingerprintEndpoints ==
    {<<"/", "c", "/", "1", "2", "3">>, <<"/", "c", "/", "4", "5", "6">>,
     <<"/", "c", "/", "7">>, <<"/", "1", "2", "3", "/", "c", "/", "7">>,
     <<"/", "4", "5", "6", "/", "c", "/", "8", "9">>, <<"/", "c">>, <<"/", "d", "/", "7">>}

FingerprintEntries ==
    {[EntryPut123 EXCEPT !.BugID = bugID, !.Method = method, !.Action = action,
                         !.Status = status, !.Function = function] :
        bugID \in ExplicitBugIDs \cup {<<>>}, method \in {MethodPUT, MethodGET},
        action \in FingerprintEndpoints, status \in {500, 503},
        function \in {<<"f">>, <<"g">>}}

FingerprintInit ==
    /\ NewProcessor
    /\ issues = <<>>
    /\ arg \in {<<a, b>> : a \in FingerprintEntries, b \in FingerprintEntries}
    /\ ret = <<>>
    /\ engines = <<>>
    /\ labels = {}

\* GenerateBugID is called for the next entry of the pair
CallGenerateBugID ==
    /\ Len(ret) < Len(arg)
    /\ ret' = Append(ret, GenerateBugID(arg[Len(ret) + 1]))
    /\ UNCHANGED <<pollVars, issues, arg, raceVars, failed>>

FingerprintSpec == FingerprintInit /\ [][CallGenerateBugID]_vars

(* C21: for an entry whose explicit bug identifier is non-empty GenerateBugID *)
(* returns that identifier, whatever its method, endpoint, status and source  *)
(* function; two entries with the same explicit identifier get the same       *)
(* bugid label, whatever their other fields.                                  *)
C21_ExplicitOverride ==
    /\ \A i \in 1..Len(ret) : arg[i].BugID # <<>> => ret[i] = arg[i].BugID
    /\ (Len(ret) = 2 /\ arg[1].BugID # <<>> /\ arg[1].BugID = arg[2].BugID)
           => BugIDLabel(ret[1]) = BugIDLabel(ret[2])

\* two entries with the same explicit identifier and no other field in common
C21_Witness ==
    /\ Len(ret) = 2
    /\ arg[1].BugID = <<"db-timeout-coffee">>
    /\ arg[2].BugID = <<"db-timeout-coffee">>
    /\ arg[1].Method # arg[2].Method
    /\ arg[1].Action # arg[2].Action
    /\ arg[1].Status # arg[2].Status
    /\ arg[1].Function # arg[2].Function
    /\ ret = <<arg[1].BugID, arg[1].BugID>>

----------------------------------------------------------------------------
(* Path segments *)

\* the pieces of s between its slashes, from position i on, cur being the
\* piece read so far
RECURSIVE SplitPath(_, _, _)
SplitPath(s, i, cur) ==
    IF i > Len(s) THEN <<cur>>
    ELSE IF s[i] = "/" THEN <<cur>> \o SplitPath(s, i + 1, <<>>)
         ELSE SplitPath(s, i + 1, Append(cur, s[i]))

\* what precedes the first slash, then the path segments, one per slash
Pieces(path) == SplitPath(path, 1, <<>>)

IsNumericSegment(seg) == Len(seg) > 0 /\ \A k \in 1..Len(seg) : seg[k] \in Digits

\* the two endpoints differ only in the values of purely numeric path segments
SameUpToNumericIDs(a, b) ==
    LET pa == Pieces(a)
        pb == Pieces(b)
    IN  /\ Len(pa) = Len(pb)
        /\ pa[1] = pb[1]
        /\ \A k \in 2..Len(pa) :
               pa[k] = pb[k] \/ (IsNumericSegment(pa[k]) /\ IsNumericSegment(pb[k]))

(* C22: two entries without explicit bug id, with the same method, status and *)
(* source function, whose endpoints differ only in the values of purely       *)
(* numeric path segments, get the same fingerprint and so the same bugid      *)
(* label.                                                                     *)
C22_NumericGrouping ==
    (/\ Len(ret) = 2
     /\ arg[1].BugID = <<>> /\ arg[2].BugID = <<>>
     /\ arg[1].Method = arg[2].Method
     /\ arg[1].Status = arg[2].Status
     /\ arg[1].Function = arg[2].Function
     /\ SameUpToNumericIDs(arg[1].Action, arg[2].Action))
        => /\ ret[1] = ret[2]
           /\ BugIDLabel(ret[1]) = BugIDLabel(ret[2])

\* /123/c/7 and /456/c/89: two numeric segments, both of different values
C22_Witness ==
    /\ Len(ret) = 2
    /\ arg[1].BugID = <<>> /\ arg[2].BugID = <<>>
    /\ arg[1].Method = arg[2].Method
    /\ arg[1].Status = arg[2].Status
    /\ arg[1].Function = arg[2].Function
    /\ arg[1].Action = <<"/", "1", "2", "3", "/", "c", "/", "7">>
    /\ arg[2].Action = <<"/", "4", "5", "6", "/", "c", "/", "8", "9">>
    /\ ret[1] = ret[2]

----------------------------------------------------------------------------
(* normalizeEndpoint applied to pairs of endpoints *)

Repeat(c, n) == [i \in 1..n |-> c]

\* a segment of UUID shape: its first character, then one digit repeated
UUIDSegment(first, fill) ==
    <<first>> \o Repeat(fill, 7) \o <<"-">> \o Repeat(fill, 4) \o <<"-">> \o Repeat(fill, 4)
        \o <<"-">> \o Repeat(fill, 4) \o <<"-">> \o Repeat(fill, 12)

TestSegments ==
    {<<"c">>, <<"v", "1">>, <<"1", "2", "3">>, <<"7">>,
     <<"2", "f", "a">>, <<"3", "f", "a">>, <<"1", "2", "3", "a", "b", "c">>,
     UUIDSegment("a", "0"), UUIDSegment("f", "e"),
     UUIDSegment("1", "b"), UUIDSegment("1", "c")}

PathOf(segs) ==
    IF Len(segs) = 1 THEN <<"/">> \o segs[1]
    ELSE <<"/">> \o segs[1] \o <<"/">> \o segs[2]

TestEndpoints ==
    {PathOf(<<seg>>) : seg \in TestSegments}
    \cup {PathOf(<<(<<"u">>), seg>>) : seg \in TestSegments}
    \cup {PathOf(<<seg, (<<"u">>)>>) : seg \in TestSegments}

NormalizeInit ==
    /\ NewProcessor
    /\ issues = <<>>
    /\ arg \in {<<a, b>> : a \in TestEndpoints, b \in TestEndpoints}
    /\ ret = <<>>
    /\ engines = <<>>
    /\ labels = {}

\* normalizeEndpoint is called for the next endpoint of the pair
CallNormalizeEndpoint ==
    /\ Len(ret) < Len(arg)
    /\ ret' = Append(ret, normalizeEndpoint(arg[Len(ret) + 1]))
    /\ UNCHANGED <<pollVars, issues, arg, raceVars, failed>>

NormalizeSpec == NormalizeInit /\ [][CallNormalizeEndpoint]_vars

\* the canonical UUID shape: 36 characters, hyphens after 8, 4, 4 and 4
\* hexadecimal digits
HyphenPositions == {9, 14, 19, 24}

UUIDLen == 36

IsUUIDSegment(seg) ==
    /\ Len(seg) = UUIDLen
    /\ \A k \in 1..UUIDLen :
           IF k \in HyphenPositions THEN seg[k] = "-" ELSE seg[k] \in HexDigits

PlaceholderUUID == <<":", "u", "u", "i", "d">>

\* the two endpoints differ only in the values of segments of UUID shape
SameUpToUUIDs(a, b) ==
    LET pa == Pieces(a)
        pb == Pieces(b)
    IN  /\ Len(pa) = Len(pb)
        /\ pa[1] = pb[1]
        /\ \A k \in 2..Len(pa) :
               pa[k] = pb[k] \/ (IsUUIDSegment(pa[k]) /\ IsUUIDSegment(pb[k]))

\* the fingerprint of an entry with this normalized endpoint
FingerprintWith(normalized) ==
    Sha256Prefix(MethodPUT \o <<"|">> \o normalized \o <<"|", ToString(500), "|", "f">>)

(* C23 as stated: normalizeEndpoint replaces every path segment of UUID shape, *)
(* whatever its first character, with the UUID placeholder, so two endpoints  *)
(* that differ only in the value of a UUID segment normalize to the same text *)
(* and get the same fingerprint.                                              *)
C23_Original ==
    /\ \A i \in 1..Len(ret) :
          LET before == Pieces(arg[i])
              after == Pieces(ret[i])
          IN  /\ Len(after) = Len(before)
              /\ \A k \in 2..Len(before) :
                     IsUUIDSegment(before[k]) => after[k] = PlaceholderUUID
    /\ (Len(ret) = 2 /\ SameUpToUUIDs(arg[1], arg[2]))
          => /\ ret[1] = ret[2]
             /\ FingerprintWith(ret[1]) = FingerprintWith(ret[2])

\* two UUID segments that begin with a digit and differ later are told apart
C23_Witness ==
    /\ Len(ret) = 2
    /\ arg[1] = PathOf(<<(<<"u">>), UUIDSegment("1", "b")>>)
    /\ arg[2] = PathOf(<<(<<"u">>), UUIDSegment("1", "c")>>)
    /\ ret[1] # ret[2]
    /\ \A i \in 1..2 : Pieces(ret[i])[3] # PlaceholderUUID

\* a segment that normalization is to leave alone
IsPlainSegment(seg) == ~IsNumericSegment(seg) /\ ~IsUUIDSegment(seg)

(* C24 as stated: normalizeEndpoint leaves unchanged every path segment that  *)
(* is neither purely numeric nor of UUID shape, segments that begin with       *)
(* digits included, so endpoints that differ in such a segment keep different *)
(* normalized texts and fingerprints.                                         *)
C24_Original ==
    /\ \A i \in 1..Len(ret) :
          LET before == Pieces(arg[i])
              after == Pieces(ret[i])
          IN  /\ Len(after) = Len(before)
              /\ \A k \in 2..Len(before) :
                     IsPlainSegment(before[k]) => after[k] = before[k]
    /\ (/\ Len(ret) = 2
        /\ Len(Pieces(arg[1])) = Len(Pieces(arg[2]))
        /\ \E k \in 2..Len(Pieces(arg[1])) :
               /\ Pieces(arg[1])[k] # Pieces(arg[2])[k]
               /\ IsPlainSegment(Pieces(arg[1])[k])
               /\ IsPlainSegment(Pieces(arg[2])[k]))
          => /\ ret[1] # ret[2]
             /\ FingerprintWith(ret[1]) # FingerprintWith(ret[2])

\* /2fa and /3fa both become /:idfa
C24_Witness ==
    /\ arg = << <<"/", "2", "f", "a">>, <<"/", "3", "f", "a">> >>
    /\ ret = << <<"/", ":", "i", "d", "f", "a">>, <<"/", ":", "i", "d", "f", "a">> >>

----------------------------------------------------------------------------
(* EnsureLabel applied to every answer to the create-label request *)

\* the status of the answer; 0 is a transport error (no answer)
TestLabelStatuses == {0, 200, 201, 204, 400, 401, 403, 404, 409, 422, 500, 502, 503}

\* the text of the answer, or of the transport error
TestLabelTexts == {resp.text : resp \in LabelAnswers}

TestLabelAnswers ==
    {[status |-> status, text |-> text] :
        status \in TestLabelStatuses, text \in TestLabelTexts}

EnsureLabelInit ==
    /\ NewProcessor
    /\ issues = <<>>
    /\ arg \in {<<resp>> : resp \in TestLabelAnswers}
    /\ ret = <<>>
    /\ engines = <<>>
    /\ labels = {}

\* EnsureLabel is called and the tracker gives the answer arg[1]
CallEnsureLabel ==
    /\ arg # <<>>
    /\ ret = <<>>
    /\ ret' = <<EnsureLabel(arg[1])>>
    /\ UNCHANGED <<pollVars, issues, arg, raceVars, failed>>

EnsureLabelSpec == EnsureLabelInit /\ [][CallEnsureLabel]_vars

StatusCreated == 201

StatusConflict == 409

(* C25 as stated: EnsureLabel reports success when the label was created      *)
(* (201) or the tracker answered that it already exists (409), and reports    *)
(* failure for every other status and for a transport error, whatever text    *)
(* the answer carries.                                                        *)
C25_Original ==
    ret # <<>> =>
        ((ret[1] = <<>>) <=> (arg[1].status \in {StatusCreated, StatusConflict}))

\* an internal error whose text mentions 409 is reported as success
C25_Witness ==
    /\ arg = <<[status |-> 500, text |-> "see issue 409"]>>
    /\ ret = << <<>> >>

----------------------------------------------------------------------------
(* generateTitle applied to entries of every shape *)

TitleStatuses == {0, 499, 500, 503}

TitleLevels == {<<>>, Levelerror, <<"W", "a", "r", "n">>}

TitleEndpoints == {<<>>, <<"/", "c">>, <<"/", "c", "/", "1", "2", "3">>}

\* messages around the limit: 79 and 80 one-byte characters, and 40
\* characters of two bytes each
TitleMessages ==
    {<<>>, <<"t", "i", "m", "e", "o", "u", "t">>, UnknownError,
     Repeat("x", TitleMessageLimit - 1), Repeat("x", TitleMessageLimit),
     Repeat(EAcute, TitleMessageLimit \div 2)}

TitleEntries ==
    {[EntryInfo EXCEPT !.Status = status, !.Level = level, !.Method = method,
                       !.Action = action, !.Message = message] :
        status \in TitleStatuses, level \in TitleLevels, method \in {<<>>, MethodPUT},
        action \in TitleEndpoints, message \in TitleMessages}

TitleInit ==
    /\ NewProcessor
    /\ issues = <<>>
    /\ arg \in {<<entry>> : entry \in TitleEntries}
    /\ ret = <<>>
    /\ engines = <<>>
    /\ labels = {}

\* generateTitle is called
CallGenerateTitle ==
    /\ arg # <<>>
    /\ ret = <<>>
    /\ ret' = <<generateTitle(arg[1])>>
    /\ UNCHANGED <<pollVars, issues, arg, raceVars, failed>>

TitleSpec == TitleInit /\ [][CallGenerateTitle]_vars

\* part (a): the bracketed status, else the bracketed upper-cased level
SeverityTag(entry) ==
    IF entry.Status >= 500 THEN << <<"[", ToString(entry.Status), "]">> >>
    ELSE IF entry.Level # <<>> THEN << <<"[">> \o ToUpper(entry.Level) \o <<"]">> >>
    ELSE <<>>

\* part (b), with the endpoint as it is to appear in the title
MethodAndEndpoint(entry, endpoint) ==
    IF entry.Method # <<>> /\ entry.Action # <<>>
    THEN << entry.Method \o <<" ">> \o endpoint >>
    ELSE <<>>

\* part (c), the message being short
MessagePart(entry, short) ==
    IF entry.Message # <<>> /\ short THEN << entry.Message >> ELSE <<>>

\* the parts separated by " - "
RECURSIVE Joined(_)
Joined(parts) ==
    IF Len(parts) = 1 THEN parts[1]
    ELSE parts[1] \o <<" - ">> \o Joined(Tail(parts))

\* the parts as the claim states them: the endpoint of the entry, the message
\* when shorter than 80 characters
PartsAsStated(entry) ==
    SeverityTag(entry) \o MethodAndEndpoint(entry, entry.Action)
        \o MessagePart(entry, Len(entry.Message) < 80)

\* the parts as produced: the normalized endpoint, the message when shorter
\* than 80 bytes
PartsProduced(entry) ==
    SeverityTag(entry) \o MethodAndEndpoint(entry, normalizeEndpoint(entry.Action))
        \o MessagePart(entry, ByteLen(entry.Message) < 80)

----------------------------------------------------------------------------
(* A log source that answers a query with lines of the window asked for:     *)
(* start <= time < end, each line once, up to the limit of the request.       *)

InWindow(w) == {line \in LogLines : w.start <= line.Timestamp /\ line.Timestamp < w.end}

IsInjective(seq) == \A i, j \in 1..Len(seq) : seq[i] = seq[j] => i = j

WindowAnswers(w) ==
    {answer \in UNION {[1..n -> InWindow(w)] : n \in BatchSizes} : IsInjective(answer)}

\* QueryRange returns lines of its window
QueryWindow ==
    /\ pc = "querying"
    /\ QueryRangeOK(WindowAnswers(query[1]))
    /\ UNCHANGED failed

\* one iteration of the range loop on an error line, a failure being recorded
ProcessLine ==
    /\ RangeLoopProcess
    /\ failed' = IF last'.err # <<>> THEN failed \cup {batch[position]} ELSE failed

WindowNext ==
    \/ Start
    \/ PollBegin
    \/ QueryFail
    \/ QueryWindow
    \/ SkipEntry
    \/ ProcessLine
    \/ PollReturn
    \/ SelectTick
    \/ Tick
    \/ Advance

WindowSpec == Init /\ [][WindowNext]_vars

\* the range loop hands the line at its position to processEntry
HandsLine == pc = "processing" /\ remaining > 0 /\ handed' = Append(handed, position)

(* C27: a line whose processEntry returned an error, in a cycle whose query   *)
(* succeeded, lies before the watermark from then on and before the start of  *)
(* every query issued later, and no later iteration of the range loop hands   *)
(* it to processEntry again.                                                  *)
C27_NoRetryOfFailedEntries ==
    /\ [][ \A line \in failed' : line.Timestamp < lastPoll' ]_vars
    /\ [][ QueryIssued => \A line \in failed : line.Timestamp < query'[1].start ]_vars
    /\ [][ HandsLine => batch[position] \notin failed ]_vars

\* a line failed in an earlier cycle, and a later cycle, whose query returned
\* other lines, has handed one of them to processEntry
C27_Witness ==
    /\ failed # {}
    /\ pc = "processing"
    /\ handed # <<>>
    /\ \A i \in 1..Len(batch) : batch[i] \notin failed

----------------------------------------------------------------------------
(* What the engine does to the tracker *)

\* the issue is as it was, but for comments added and a closed state opened
OnlyGrown(before, after) ==
    /\ after.title = before.title
    /\ after.labels = before.labels
    /\ after.comments >= before.comments
    /\ after.state # before.state => (before.state = "closed" /\ after.state = "open")

(* C28: a processEntry deletes no issue, closes no issue and removes no        *)
(* comment: every issue is still there with at least its comments, the only   *)
(* state change is closed to open, and the calls it makes are searches, label *)
(* creations, issue creations, comments, reopenings and notifications.        *)
C28_OnlyAddsAndReopens ==
    [][ ProcessEntryStep =>
          /\ Len(issues') >= Len(issues)
          /\ \A i \in 1..Len(issues) : OnlyGrown(issues[i], issues'[i])
          /\ \A i \in (Len(issues) + 1)..Len(issues') : issues'[i].state = "open"
          /\ \A k \in 1..Len(last'.calls) :
                 last'.calls[k].op \in TrackerOps \cup NotifyOps ]_vars

\* processEntry commented on a closed issue and reopened it while another
\* issue exists
C28_Witness ==
    /\ FirstFound("closed")
    /\ CallsOf(last.calls, "ReopenIssue") # {}
    /\ issues[last.found[1].number].state = "open"
    /\ issues[last.found[1].number].comments = 1
    /\ Len(issues) = 2

----------------------------------------------------------------------------
(* The watermark over time.  The clock of the model never goes backwards.     *)

----------------------------------------------------------------------------
(* The order of mutations and notifications within one processEntry *)

\* call k of the latest processEntry follows a successful call of operation op
\* on the same issue
FollowsSuccess(k, op) ==
    \E j \in 1..(k - 1) :
        /\ last.calls[j].op = op
        /\ last.calls[j].ok
        /\ last.calls[j].number = last.calls[k].number

(* C30: a new-issue notification follows a successful CreateIssue call and    *)
(* carries the number that call returned; a reopened notification follows a   *)
(* successful ReopenIssue call on the issue it names; and a ReopenIssue call   *)
(* follows a successful AddComment call on the same issue.                    *)
C30_NotifyAfterMutation ==
    /\ \A k \in CallsOf(last.calls, "NotifyNewIssue") : FollowsSuccess(k, "CreateIssue")
    /\ \A k \in CallsOf(last.calls, "NotifyReopenedIssue") : FollowsSuccess(k, "ReopenIssue")
    /\ \A k \in CallsOf(last.calls, "ReopenIssue") : FollowsSuccess(k, "AddComment")

\* the second issue of the tracker was created and notified
C30_Witness ==
    /\ Processed
    /\ Len(issues) = 2
    /\ \E k \in CallsOf(last.calls, "NotifyNewIssue") :
           last.calls[k].number = 2 /\ FollowsSuccess(k, "CreateIssue")

----------------------------------------------------------------------------
(* processEntry applied to a sequence of entries by one processor, every call *)
(* succeeding; nobody else comments, a user may close issues in between.      *)

SightingEntries == {EntryPut123, EntryPut456, EntryExplicit}

SightingInit ==
    /\ NewProcessor
    /\ arg \in UNION {[1..n -> SightingEntries] : n \in 1..MaxSightings}
    /\ ret = <<>>
    /\ engines = <<>>
    /\ labels = {}

\* every tracker call and every notification succeeds
AllSucceed == Outcome(TRUE, FALSE, [status |-> 201, text |-> ""], TRUE, TRUE, TRUE, {})

\* processEntry is called for the next entry; ret keeps the calls it made
CallProcessEntry ==
    /\ Len(ret) < Len(arg)
    /\ \E r \in {processEntry(arg[Len(ret) + 1], AllSucceed)} :
          /\ issues' = r.issues
          /\ ret' = Append(ret, r.calls)
    /\ UNCHANGED <<pollVars, arg, raceVars, failed>>

SightingNext == CallProcessEntry \/ CloseStep

SightingSpec == SightingInit /\ [][SightingNext]_vars

\* entry i is the n-th sighting of its fingerprint
SightingNumber(i) ==
    Cardinality({j \in 1..i : GenerateBugID(arg[j]) = GenerateBugID(arg[i])})

\* the AddComment calls on issue number made by the first i invocations
CommentsWritten(number, i) ==
    UNION {{<<j, k>> : k \in {c \in CallsOf(ret[j], "AddComment") : ret[j][c].number = number}} :
              j \in 1..i}

(* C31: the n-th sighting of a fingerprint, n >= 2, makes one AddComment call *)
(* stamped with the occurrence number n, and it is the (n - 1)-th comment     *)
(* written on its issue: the numbers written on an issue are 2, 3, 4, ...     *)
C31_ConsecutiveOccurrences ==
    \A i \in 1..Len(ret) :
        SightingNumber(i) >= 2 =>
            /\ Cardinality(CallsOf(ret[i], "AddComment")) = 1
            /\ CallsOf(ret[i], "CreateIssue") = {}
            /\ \A k \in CallsOf(ret[i], "AddComment") :
                   /\ ret[i][k].occ = SightingNumber(i)
                   /\ Cardinality(CommentsWritten(ret[i][k].number, i)) = SightingNumber(i) - 1

\* the fourth sighting of a fingerprint, the issue having been closed and
\* reopened on the way
C31_Witness ==
    /\ Len(ret) >= 4
    /\ SightingNumber(4) = 4
    /\ \E i \in 2..3 : CallsOf(ret[i], "ReopenIssue") # {}
    /\ \E k \in CallsOf(ret[4], "AddComment") : ret[4][k].occ = 4

====
